---- MODULE Spec2Model ----
(***************************************************************************)
(* A model of chessnet.py: the sharded directory generator                 *)
(* (DataDirGenerator) and the move evaluator / selector                    *)
(* (ChessNet.analyze_position, ChessNet.select_move).                      *)
(*                                                                         *)
(* chessnet.py is Python 2 code (xrange, line 57): `/` on two ints is the  *)
(* floor division, and objects without comparison methods are ordered by   *)
(* their address.                                                          *)
(***************************************************************************)
EXTENDS Integers, Sequences, FiniteSets, TLC

\* ------------------------------------------------------------------ bounds
MaxFiles == 2
MaxCount == 4
MaxBatchSize == 3
MaxPulls == 5

\* The generator instances: train_gen and val_gen of train_on_data_directory,
\* here two instances built over one and the same directory.
Gens == {1, 2}

\* How a shard's labels are laid out: "pairs" is (0, 1, 0, 1, ...), label 0 at
\* every even 0-based index; "swapped" is (1, 0, 1, 0, ...).
Layouts == {"pairs", "swapped"}

\* The model's scores are whole score units from -1 (a negative output) up.
MaxMoves == 3
MaxScore == 2
MaxCalls == 2

VARIABLES
    disk,       \* the directory: file name -> shard (three parallel arrays)
    batchSize,  \* ChessNet.batch_size, handed to every DataDirGenerator
    gen,        \* per instance: the object's fields and its generator frame
    hist,       \* per instance: the batches its consumer has received, in order
    board,      \* the caller's board: its move stack
    board0,     \* the board as it was before the first call
    legal,      \* list(board.legal_moves) at that position, in enumeration order
    az,         \* the frame of the current analyze_position / select_move call
    calls       \* calls made so far

loaderVars == <<disk, batchSize, gen, hist>>
evalVars == <<board, board0, legal, az, calls>>
vars == <<disk, batchSize, gen, hist, board, board0, legal, az, calls>>

\* ----------------------------------------------------------- pure helpers
Min(a, b) == IF a < b THEN a ELSE b

\* A division that rounds up.
PyIntDivCeil(a, b) == (a + b - 1) \div b

\* Python 2 `a / b` on non-negative ints: the floor.
PyIntDiv(a, b) == a \div b

\* Python a[start:end] on a 0-based sequence (the end is clamped).
PySlice(a, start, end) == SubSeq(a, start + 1, Min(end, Len(a)))

\* sorted(names): ascending file names.
Sorted(s) == SortSeq(s, LAMBDA a, b : a < b)

\* All orders in which glob may list the files of directory d.
GlobOrders(d) ==
    LET n == Cardinality(DOMAIN d)
    IN  {s \in [1..n -> DOMAIN d] : \A i, j \in 1..n : i # j => s[i] # s[j]}

Label(layout, i) == IF layout = "pairs" THEN (i - 1) % 2 ELSE i % 2

\* The shard file f holding n samples.
MkShard(f, n, layout) ==
    [board_tensors  |-> [i \in 1..n |-> <<"b", f, i>>],
     extra_tensors  |-> [i \in 1..n |-> <<"e", f, i>>],
     target_tensors |-> [i \in 1..n |-> Label(layout, i)]]

MkDir(counts, layout) ==
    [f \in DOMAIN counts |-> MkShard(f, counts[f], layout)]

\* A listing that is used as glob returned it.
NpzFilesUnsorted(listing) == listing

\* line 35: self.npz_files = sorted(glob(...))
NpzFiles(listing) == Sorted(listing)

\* lines 40-43: the scan loop, from file i on, acc the running n_batches.
RECURSIVE ScanDirectory(_, _, _, _, _)
ScanDirectory(d, files, bs, i, acc) ==
    IF i > Len(files) THEN acc
    ELSE ScanDirectory(d, files, bs, i + 1,
                       acc + PyIntDiv(Len(d[files[i]].board_tensors), bs))

\* lines 46-48
samples_per_epoch(o) == o.batch_size * o.n_batches

\* ------------------------------------------------------ generator objects
NoData == [board_tensors |-> <<>>, extra_tensors |-> <<>>, target_tensors |-> <<>>]

\* An instance not yet constructed.
NewGen ==
    [pc |-> "new", npz_files |-> <<>>, batch_size |-> 0, n_batches |-> 0,
     running |-> FALSE, pos |-> "while", fi |-> 0, data |-> NoData,
     n_range |-> 0, batch_idx |-> 0]

\* lines 33-44: DataDirGenerator.__init__
Construct(g) ==
    /\ gen[g].pc = "new"
    /\ \E listing \in GlobOrders(disk) :
         LET files == NpzFiles(listing)
         IN  gen' = [gen EXCEPT ![g] =
                        [@ EXCEPT !.pc = "built",
                                  !.npz_files = files,
                                  !.batch_size = batchSize,
                                  !.n_batches =
                                      ScanDirectory(disk, files, batchSize, 1, 0)]]
    /\ UNCHANGED <<disk, batchSize, hist, evalVars>>

\* The consumer (fit_generator's worker) asks for the next batch: next(gen).
Request(g) ==
    /\ gen[g].pc = "built"
    /\ ~gen[g].running
    /\ Len(hist[g]) < MaxPulls
    /\ gen' = [gen EXCEPT ![g].running = TRUE]
    /\ UNCHANGED <<disk, batchSize, hist, evalVars>>

\* line 51: while True, entering the for loop over self.npz_files.
WhileTrue(g) ==
    /\ gen[g].running
    /\ gen[g].pos = "while"
    /\ gen' = [gen EXCEPT ![g].pos = "for", ![g].fi = 0]
    /\ UNCHANGED <<disk, batchSize, hist, evalVars>>

\* lines 52-57: the for loop takes its next file and loads it, or is exhausted.
ForNext(g) ==
    /\ gen[g].running
    /\ gen[g].pos = "for"
    /\ IF gen[g].fi < Len(gen[g].npz_files)
       THEN LET data == disk[gen[g].npz_files[gen[g].fi + 1]]
            IN  gen' = [gen EXCEPT ![g] =
                    [@ EXCEPT !.pos = "range",
                              !.fi = @ + 1,
                              !.data = data,
                              !.n_range = PyIntDiv(Len(data.board_tensors),
                                                   gen[g].batch_size),
                              !.batch_idx = 0]]
       ELSE gen' = [gen EXCEPT ![g].pos = "while"]
    /\ UNCHANGED <<disk, batchSize, hist, evalVars>>

\* A batch that runs over the end of its range by one sample.
BatchOfLong(o) ==
    LET start == o.batch_idx * o.batch_size
        end == (o.batch_idx + 1) * o.batch_size + 1
    IN  [board  |-> PySlice(o.data.board_tensors, start, end),
         extra  |-> PySlice(o.data.extra_tensors, start, end),
         target |-> PySlice(o.data.target_tensors, start, end)]

\* A batch that starts one sample late.
BatchOfShifted(o) ==
    LET start == o.batch_idx * o.batch_size + 1
        end == (o.batch_idx + 1) * o.batch_size + 1
    IN  [board  |-> PySlice(o.data.board_tensors, start, end),
         extra  |-> PySlice(o.data.extra_tensors, start, end),
         target |-> PySlice(o.data.target_tensors, start, end)]

\* lines 58-63: the batch yielded at batch_idx.
BatchOf(o) ==
    LET start == o.batch_idx * o.batch_size
        end == (o.batch_idx + 1) * o.batch_size
    IN  [board  |-> PySlice(o.data.board_tensors, start, end),
         extra  |-> PySlice(o.data.extra_tensors, start, end),
         target |-> PySlice(o.data.target_tensors, start, end)]

\* An xrange loop whose offset is shared by all instances (a class attribute).
RangeNextShared(g) ==
    /\ gen[g].running
    /\ gen[g].pos = "range"
    /\ IF gen[g].batch_idx < gen[g].n_range
       THEN /\ gen' = [h \in Gens |->
                        IF h = g
                        THEN [gen[h] EXCEPT !.running = FALSE, !.batch_idx = @ + 1]
                        ELSE [gen[h] EXCEPT !.batch_idx = @ + 1]]
            /\ hist' = [hist EXCEPT ![g] = Append(@, BatchOf(gen[g]))]
       ELSE /\ gen' = [gen EXCEPT ![g].pos = "for"]
            /\ UNCHANGED hist
    /\ UNCHANGED <<disk, batchSize, evalVars>>

\* lines 57-63: the xrange loop yields its next batch (and the generator is
\* suspended, the request answered), or is exhausted.
RangeNext(g) ==
    /\ gen[g].running
    /\ gen[g].pos = "range"
    /\ IF gen[g].batch_idx < gen[g].n_range
       THEN /\ gen' = [gen EXCEPT ![g].running = FALSE,
                                  ![g].batch_idx = @ + 1]
            /\ hist' = [hist EXCEPT ![g] = Append(@, BatchOf(gen[g]))]
       ELSE /\ gen' = [gen EXCEPT ![g].pos = "for"]
            /\ UNCHANGED hist
    /\ UNCHANGED <<disk, batchSize, evalVars>>

\* One step of instance g's generator frame.
GenStep(g) == WhileTrue(g) \/ ForNext(g) \/ RangeNext(g)

\* No call in progress.
IdleCall ==
    [pc |-> "idle", mode |-> "none", moves |-> <<>>, i |-> 0, tensors |-> <<>>,
     scores |-> <<>>, result |-> <<>>, selected |-> 0, raised |-> FALSE]

\* A directory of up to MaxFiles shards, its labels in one of the layouts ls.
InitOver(ls) ==
    /\ disk \in {MkDir(counts, layout) :
                    counts \in UNION {[1..n -> 0..MaxCount] : n \in 0..MaxFiles},
                    layout \in ls}
    /\ batchSize \in 1..MaxBatchSize
    /\ gen = [g \in Gens |-> NewGen]
    /\ hist = [g \in Gens |-> <<>>]
    /\ board = <<>>
    /\ board0 = <<>>
    /\ legal = <<1>>
    /\ az = IdleCall
    /\ calls = 0

Init == InitOver(Layouts)

\* One instance, pulled by its consumer.
Next ==
    \/ Construct(1)
    \/ Request(1)
    \/ WhileTrue(1)
    \/ ForNext(1)
    \/ RangeNext(1)

Spec == Init /\ [][Next]_vars

\* A running generator frame keeps executing.
FairSpec == Spec /\ WF_vars(GenStep(1))

\* Two instances over the same directory, pulled in any interleaving.
TwoNext ==
    \E g \in Gens :
        \/ Construct(g)
        \/ Request(g)
        \/ WhileTrue(g)
        \/ ForNext(g)
        \/ RangeNext(g)

\* The labels play no part in what one instance does to the other.
TwoInit == InitOver({"pairs"})

TwoSpec == TwoInit /\ [][TwoNext]_vars

\* ============================================================= evaluator
\* A legal move is named by its rank in the rules engine's enumeration of the
\* position's legal moves: legal = <<1, ..., n>>.
MoveIds == 1..MaxMoves
ScoreVals == (0 - 1)..MaxScore

RECURSIVE SumSeq(_)
SumSeq(s) == IF s = <<>> THEN 0 ELSE s[1] + SumSeq(Tail(s))

Reverse(s) == [k \in 1..Len(s) |-> s[Len(s) + 1 - k]]

\* The rules engine's board.push(move) and board.pop() on the move stack.
BoardPush(b, m) == Append(b, m)
\* A pop that is left out.
BoardPopMissing(b) == b

BoardPop(b) == SubSeq(b, 1, Len(b) - 1)

\* Preprocessor.board_to_tensor: a pure function of the position, which the
\* move stack identifies. It returns (board tensor, extra tensor).
board_to_tensor(b) == <<<<"bt", b>>, <<"et", b>>>>

\* A float: the quotient n / d as numpy computes it, d = 0 giving nan (0/0),
\* inf or -inf.
IsNaN(p) == p.d = 0 /\ p.n = 0
Sgn(x) == IF x > 0 THEN 1 ELSE IF x < 0 THEN 0 - 1 ELSE 0

\* p < q on floats: false when either is nan.
FloatLt(p, q) ==
    /\ ~IsNaN(p)
    /\ ~IsNaN(q)
    /\ IF p.d = 0 /\ q.d = 0 THEN p.n < 0 /\ q.n > 0
       ELSE IF p.d = 0 THEN p.n < 0
       ELSE IF q.d = 0 THEN q.n > 0
       ELSE p.n * Sgn(p.d) * q.d * Sgn(q.d) < q.n * Sgn(q.d) * p.d * Sgn(p.d)

\* p == q on floats: false when either is nan.
FloatEq(p, q) == ~IsNaN(p) /\ ~IsNaN(q) /\ ~FloatLt(p, q) /\ ~FloatLt(q, p)

\* (p, move) < (q, move') on tuples: the first elements that are not equal
\* decide. Two moves are ordered by addr, the addresses of the Move objects.
TupleLt(addr, a, b) ==
    IF ~FloatEq(a.p, b.p) THEN FloatLt(a.p, b.p)
    ELSE IF a.move # b.move THEN addr[a.move] < addr[b.move]
    ELSE FALSE

\* line 201: scores_dist = scores / np.sum(scores)
Normalize(scores) ==
    LET total == SumSeq(scores)
    IN  [k \in 1..Len(scores) |-> [n |-> scores[k], d |-> total]]

\* zip(scores_dist, moves)
Zip(dist, moves) ==
    [k \in 1..Min(Len(dist), Len(moves)) |-> [p |-> dist[k], move |-> moves[k]]]

\* list.sort's count_run: the length of the run that starts s, strictly
\* descending (desc) or non-descending; k is the length found so far.
RECURSIVE RunEnd(_, _, _, _)
RunEnd(addr, s, k, desc) ==
    IF k = Len(s) THEN k
    ELSE LET lt == TupleLt(addr, s[k + 1], s[k])
         IN  IF desc = lt THEN RunEnd(addr, s, k + 1, desc) ELSE k

\* list.sort's binarysort: where the pivot goes in s[l..r) (0-based).
RECURSIVE BinSearch(_, _, _, _, _)
BinSearch(addr, s, pivot, l, r) ==
    IF l >= r THEN l
    ELSE LET q == l + ((r - l) \div 2)
         IN  IF TupleLt(addr, pivot, s[q + 1])
             THEN BinSearch(addr, s, pivot, l, q)
             ELSE BinSearch(addr, s, pivot, q + 1, r)

\* list.sort's binarysort: s[1..start-1] is sorted, the rest is inserted.
RECURSIVE BinarySort(_, _, _)
BinarySort(addr, s, start) ==
    IF start > Len(s) THEN s
    ELSE LET pivot == s[start]
             l == BinSearch(addr, s, pivot, 0, start - 1)
             t == SubSeq(s, 1, l) \o <<pivot>> \o SubSeq(s, l + 1, start - 1)
                     \o SubSeq(s, start + 1, Len(s))
         IN  BinarySort(addr, t, start + 1)

\* list.sort on fewer than 64 elements: the first run, reversed when it is
\* descending, then a binary insertion sort of the rest.
ListSort(addr, s) ==
    IF Len(s) < 2 THEN s
    ELSE LET desc == TupleLt(addr, s[2], s[1])
             n == RunEnd(addr, s, 2, desc)
             t == IF desc THEN Reverse(SubSeq(s, 1, n)) \o SubSeq(s, n + 1, Len(s))
                  ELSE s
         IN  BinarySort(addr, t, n + 1)

\* sorted(s): ascending.
SortedAscending(addr, s) == ListSort(addr, s)

\* line 203: sorted(s, reverse=True): the list is reversed, sorted and
\* reversed again.
SortedReverse(addr, s) == Reverse(ListSort(addr, Reverse(s)))

\* The orders the addresses of the Move objects may have.
AddrOrders ==
    {a \in [MoveIds -> MoveIds] : \A x, y \in MoveIds : x # y => a[x] # a[y]}

Degenerate(scores) ==
    \/ SumSeq(scores) = 0
    \/ \E k \in 1..Len(scores) : scores[k] < 0

\* lines 178-187 (and 211): a call of analyze_position, by itself ("analyze")
\* or from select_move with stochastic False ("greedy") or True.
Call(mode) ==
    /\ az.pc \in {"idle", "done"}
    /\ calls < MaxCalls
    /\ calls' = calls + 1
    /\ az' = [IdleCall EXCEPT !.pc = "loop", !.mode = mode,
                              !.moves = legal, !.i = 1]
    /\ UNCHANGED <<board, board0, legal, loaderVars>>

\* lines 188-189: the loop takes its next move and pushes it.
Push ==
    /\ az.pc = "loop"
    /\ az.i <= Len(az.moves)
    /\ board' = BoardPush(board, az.moves[az.i])
    /\ az' = [az EXCEPT !.pc = "pushed"]
    /\ UNCHANGED <<board0, legal, calls, loaderVars>>

\* lines 190-193: the position is encoded and the move popped.
EncodePop ==
    /\ az.pc = "pushed"
    /\ az' = [az EXCEPT !.pc = "loop", !.i = @ + 1,
                        !.tensors = Append(@, board_to_tensor(board))]
    /\ board' = BoardPop(board)
    /\ UNCHANGED <<board0, legal, calls, loaderVars>>

\* lines 194-203: the model scores the positions (any scores), the scores are
\* normalised and the (probability, move) list is sorted and returned.
Evaluate ==
    /\ az.pc = "loop"
    /\ az.i > Len(az.moves)
    /\ \E scores \in [1..Len(az.moves) -> ScoreVals] : \E addr \in AddrOrders :
          az' = [az EXCEPT
                    !.pc = IF az.mode = "analyze" THEN "done" ELSE "select",
                    !.scores = scores,
                    !.result = SortedReverse(addr, Zip(Normalize(scores), az.moves))]
    /\ UNCHANGED <<board, board0, legal, calls, loaderVars>>

\* lines 215-216: scores[0][1]
SelectGreedy ==
    /\ az.pc = "select"
    /\ az.mode = "greedy"
    /\ az' = [az EXCEPT !.pc = "done", !.selected = az.result[1].move]
    /\ UNCHANGED <<board, board0, legal, calls, loaderVars>>

\* lines 212-214: one multinomial trial over the probabilities draws an index
\* of positive probability. Over a degenerate list (negative, infinite or nan
\* entries) numpy either raises ValueError or draws some index.
SelectStochastic ==
    /\ az.pc = "select"
    /\ az.mode = "stochastic"
    /\ IF Degenerate(az.scores)
       THEN \/ az' = [az EXCEPT !.pc = "done", !.raised = TRUE]
            \/ \E k \in 1..Len(az.result) :
                  az' = [az EXCEPT !.pc = "done", !.selected = az.result[k].move]
       ELSE \E k \in 1..Len(az.result) :
               /\ az.result[k].p.n > 0
               /\ az' = [az EXCEPT !.pc = "done", !.selected = az.result[k].move]
    /\ UNCHANGED <<board, board0, legal, calls, loaderVars>>

\* A board with some moves played and at least one legal move.
EvalInit ==
    /\ disk = <<>>
    /\ batchSize = 1
    /\ gen = [g \in Gens |-> NewGen]
    /\ hist = [g \in Gens |-> <<>>]
    /\ board0 \in {<<>>, <<1>>}
    /\ board = board0
    /\ legal \in {[k \in 1..n |-> k] : n \in 1..MaxMoves}
    /\ az = IdleCall
    /\ calls = 0

EvalNext ==
    \/ \E mode \in {"analyze", "greedy", "stochastic"} : Call(mode)
    \/ Push
    \/ EncodePop
    \/ Evaluate
    \/ SelectGreedy
    \/ SelectStochastic

EvalSpec == EvalInit /\ [][EvalNext]_vars


\* ================================================================ claims
\* ------------------------------------------------- reference definitions
Count(f) == Len(disk[f].board_tensors)

\* The floor of n / b, by its defining inequalities.
FloorQuot(n, b) == CHOOSE q \in 0..n : q * b <= n /\ n < (q + 1) * b

RECURSIVE SumFloors(_, _)
SumFloors(fs, b) ==
    IF fs = {} THEN 0
    ELSE LET f == CHOOSE x \in fs : TRUE
         IN  FloorQuot(Count(f), b) + SumFloors(fs \ {f}, b)

Built(g) == gen[g].pc = "built"

\* The shard and the 1-based index of a batch's first sample.
OriginFile(b) == b.board[1][2]
OriginIdx(b) == b.board[1][3]
Before(b, c) ==
    \/ OriginFile(b) < OriginFile(c)
    \/ OriginFile(b) = OriginFile(c) /\ OriginIdx(b) < OriginIdx(c)

PairedDisk ==
    \A f \in DOMAIN disk : \A i \in 1..Count(f) :
        disk[f].target_tensors[i] = (i - 1) % 2

\* A batch made of whole pairs: an even number of samples, 0-based position 2i
\* a label-0 sample and 2i+1 the label-1 sample that follows it in the shard,
\* the pair starting at an even 0-based index of the shard.
WholePairs(b) ==
    /\ Len(b.target) % 2 = 0
    /\ \A p \in 1..Len(b.target) :
          IF p % 2 = 1
          THEN /\ b.target[p] = 0
               /\ b.board[p][3] % 2 = 1
          ELSE /\ b.target[p] = 1
               /\ b.board[p][2] = b.board[p - 1][2]
               /\ b.board[p][3] = b.board[p - 1][3] + 1

\* C1: the constructor sets n_batches to the sum over the shards of
\* floor(count / batch_size), a non-negative integer, and samples_per_epoch is
\* batch_size * n_batches; shards of 10 and 15 samples with batch_size 4 give
\* 5 and 20.
C1_BatchCount ==
    /\ \A g \in Gens : Built(g) =>
          /\ gen[g].n_batches \in Nat
          /\ gen[g].n_batches = SumFloors(DOMAIN disk, gen[g].batch_size)
          /\ samples_per_epoch(gen[g]) = gen[g].batch_size * gen[g].n_batches
    /\ LET d == MkDir(<<10, 15>>, "pairs")
           n == ScanDirectory(d, NpzFiles(<<2, 1>>), 4, 1, 0)
       IN  /\ n = 5
           /\ samples_per_epoch([batch_size |-> 4, n_batches |-> n]) = 20

C1_Witness ==
    \E g \in Gens :
        /\ Built(g)
        /\ gen[g].n_batches >= 2
        /\ Cardinality(DOMAIN disk) = 2
        /\ \E f \in DOMAIN disk : Count(f) % gen[g].batch_size # 0

\* C2: the first n_batches batches of an instance visit the shards in
\* ascending file-name order and each shard's batches in increasing offset
\* order, and batch k + n_batches equals batch k: a pass has exactly
\* n_batches batches and the next one is again the first.
C2_PassAndCycle ==
    \A g \in Gens :
        LET n == gen[g].n_batches
            h == hist[g]
        IN  /\ \A k, l \in 1..Len(h) :
                  (k < l /\ l <= n) => Before(h[k], h[l])
            /\ \A k \in 1..Len(h) :
                  k + n <= Len(h) => h[k + n] = h[k]
            /\ Len(h) > 0 => n > 0

C2_Witness ==
    \E g \in Gens :
        /\ gen[g].n_batches >= 3
        /\ Len(hist[g]) > gen[g].n_batches
        /\ \E k \in 1..Len(hist[g]) : OriginFile(hist[g][k]) # OriginFile(hist[g][1])

\* C3: every yielded batch holds exactly batch_size samples, the range
\* [j*batch_size, (j+1)*batch_size) of one shard, the three arrays sliced
\* over that same range; the last (count mod batch_size) samples of a shard
\* are in no batch.
C3_BatchShape ==
    \A g \in Gens : \A k \in 1..Len(hist[g]) :
        LET b == hist[g][k]
            bs == gen[g].batch_size
        IN  /\ Len(b.board) = bs
            /\ Len(b.extra) = bs
            /\ Len(b.target) = bs
            /\ \E f \in DOMAIN disk : \E j \in 0..Count(f) :
                  /\ (j + 1) * bs <= Count(f) - (Count(f) % bs)
                  /\ \A p \in 1..bs :
                        /\ b.board[p] = disk[f].board_tensors[j * bs + p]
                        /\ b.extra[p] = disk[f].extra_tensors[j * bs + p]
                        /\ b.target[p] = disk[f].target_tensors[j * bs + p]

C3_Witness ==
    \E g \in Gens :
        /\ gen[g].batch_size >= 2
        /\ Len(hist[g]) >= 3
        /\ \E k \in 1..Len(hist[g]) :
              /\ OriginFile(hist[g][k]) = 2
              /\ Count(1) % gen[g].batch_size # 0
              /\ Count(1) >= gen[g].batch_size

\* C4: every request for the next batch is eventually answered with a batch.
C4_EveryRequestAnswered ==
    \A g \in Gens : gen[g].running ~> ~gen[g].running

\* What does hold: a request is answered when the directory has a batch.
C4_AnsweredWhenBatches ==
    \A g \in Gens : (gen[g].running /\ gen[g].n_batches > 0) ~> ~gen[g].running

\* C8: a step changes the fields, the frame and the received batches of at
\* most one instance and never the directory, and the two instances, built
\* over the same directory, receive the same sequence whatever the
\* interleaving: each sequence is the one the instance yields pulled alone.
C8_StepOfOne ==
    /\ disk' = disk
    /\ \E g \in Gens : \A h \in Gens \ {g} :
          gen'[h] = gen[h] /\ hist'[h] = hist[h]

C8_SameSequence ==
    \A g, h \in Gens : \A k \in 1..Min(Len(hist[g]), Len(hist[h])) :
        hist[g][k] = hist[h][k]

\* C8: two instances over the same directory, pulled in any interleaving,
\* never change each other's position or batches nor the shards, and each
\* receives the sequence it would receive pulled alone.
C8_Independent == [](C8_SameSequence) /\ [][C8_StepOfOne]_vars

C8_Witness ==
    /\ Len(hist[1]) >= 3
    /\ Len(hist[2]) = 1
    /\ gen[2].running
    /\ gen[1].fi # gen[2].fi

\* C9 as stated: with the labels stored as adjacent pairs from index 0, every
\* batch is made of whole pairs, for every batch_size >= 1.
C9_WholePairsAnySize ==
    PairedDisk => \A g \in Gens : \A k \in 1..Len(hist[g]) : WholePairs(hist[g][k])

\* C9 amended: the same for every even batch_size.
C9_WholePairsEvenSize ==
    (PairedDisk /\ batchSize % 2 = 0) =>
        \A g \in Gens : \A k \in 1..Len(hist[g]) : WholePairs(hist[g][k])

C9_Witness ==
    /\ PairedDisk
    /\ batchSize % 2 = 0
    /\ \E g \in Gens : \E k \in 1..Len(hist[g]) :
          /\ OriginIdx(hist[g][k]) > 1
          /\ \E f \in DOMAIN disk : Count(f) % 2 = 1 /\ Count(f) > batchSize

\* ----------------------------------------------------- evaluator claims
\* analyze_position has returned its list.
Returned == az.pc \in {"select", "done"}

LegalSet == {legal[k] : k \in 1..Len(legal)}
IndexOf(m) == CHOOSE k \in 1..Len(legal) : legal[k] = m
ScoreOf(m) == az.scores[IndexOf(m)]

RECURSIVE SumOver(_, _)
SumOver(f, ks) ==
    IF ks = {} THEN 0
    ELSE LET k == CHOOSE x \in ks : TRUE IN f[k] + SumOver(f, ks \ {k})

\* C5: for non-negative scores that are not all zero the returned list has
\* one entry per legal move and no other, each probability is the move's
\* score over the sum of the scores, the probabilities sum to 1, the list is
\* ordered by non-increasing probability, and a single legal move gets 1.
C5_Distribution ==
    (Returned /\ ~Degenerate(az.scores)) =>
        LET r == az.result
            total == SumOver(az.scores, DOMAIN az.scores)
        IN  /\ Len(r) = Len(legal)
            /\ \A m \in LegalSet :
                  Cardinality({k \in 1..Len(r) : r[k].move = m}) = 1
            /\ \A k \in 1..Len(r) :
                  /\ r[k].move \in LegalSet
                  /\ r[k].p.d # 0
                  /\ r[k].p.n * total = ScoreOf(r[k].move) * r[k].p.d
                  /\ r[k].p.d = r[1].p.d
            /\ SumOver([k \in 1..Len(r) |-> r[k].p.n], 1..Len(r)) = r[1].p.d
            /\ \A k, l \in 1..Len(r) : k < l => ~FloatLt(r[k].p, r[l].p)
            /\ Len(legal) = 1 => r[1].p.n = r[1].p.d

C5_Witness ==
    /\ Returned
    /\ ~Degenerate(az.scores)
    /\ Len(legal) = 3
    /\ az.scores[1] < az.scores[2]
    /\ az.scores[2] = az.scores[3]

\* C6: when the scores sum to zero or one of them is negative,
\* analyze_position returns no list and select_move returns no move.
C6_DegenerateReported ==
    (Returned /\ Degenerate(az.scores)) =>
        /\ az.result = <<>>
        /\ az.selected = 0

\* C7: select_move with stochastic False returns a legal move of maximal
\* probability, the first such move in the enumeration of the legal moves.
C7_GreedyFirstMax ==
    (az.pc = "done" /\ az.mode = "greedy" /\ ~Degenerate(az.scores)) =>
        /\ az.selected \in LegalSet
        /\ \A m \in LegalSet : ScoreOf(m) <= ScoreOf(az.selected)
        /\ \A m \in LegalSet :
              IndexOf(m) < IndexOf(az.selected) => ScoreOf(m) < ScoreOf(az.selected)

\* The part of C7 without the tie-break.
C7_GreedyMax ==
    (az.pc = "done" /\ az.mode = "greedy" /\ ~Degenerate(az.scores)) =>
        /\ az.selected \in LegalSet
        /\ \A m \in LegalSet : ScoreOf(m) <= ScoreOf(az.selected)

\* C10: during a call at most one extra move is on the board, each move is
\* pushed on the original position and that position is the one encoded, and
\* outside the push .. pop bracket, so after every call, the board is as it
\* was before the first call.
C10_BoardRestored ==
    /\ Len(board) <= Len(board0) + 1
    /\ az.pc # "pushed" => board = board0
    /\ az.pc = "pushed" => board = Append(board0, az.moves[az.i])
    /\ \A k \in 1..Len(az.tensors) :
          az.tensors[k] = board_to_tensor(Append(board0, az.moves[k]))

C10_Witness ==
    /\ calls = 2
    /\ az.pc = "done"
    /\ az.mode = "greedy"
    /\ az.selected # 0
    /\ Len(az.tensors) >= 2
    /\ board0 # <<>>

====
